---- MODULE Spec2Model ----
(***************************************************************************)
(* Verification model of the tourism API client core:                      *)
(*   - fetchWithRetry        (tour-api.ts, the HTTP retry wrapper)         *)
(*   - useInfiniteTours      (hooks/use-infinite-tours.ts, the paginated   *)
(*                            aggregator behind the infinite scroll)       *)
(*   - batchGetPetTourInfo   (pet-filter.ts, the chunked pet-info lookup)  *)
(*   - the API operations    (tour-api.ts: one fetchWithRetry call, then   *)
(*                            parseApiResponse and the item normalisation) *)
(*   - buildQueryString      (tour-api.ts, the query string of a request)  *)
(*   - GET /api/tours        (app/api/tours/route.ts, the list route)      *)
(*   - katecToWgs84          (lib/utils/coordinate.ts)                     *)
(*   - filterPetFriendlyTours (pet-filter.ts)                              *)
(* Each component has its own specification over the shared variables; the *)
(* other components stay in their initial state.                           *)
(***************************************************************************)
EXTENDS Integers, Sequences, FiniteSets, TLC

VARIABLES
    \* ---- fetchWithRetry: one call of the function ----
    frPc,          \* "idle" | "fetch" | "backoff" | "returned" | "thrown"
    maxRetries,    \* the maxRetries argument of the call
    attempt,       \* the loop variable
    lastError,     \* the lastError local
    frResult,      \* the response returned or the error raised
    frLog,         \* history: outcome of every network attempt, in order
    frDelays,      \* history: every backoff delay waited (ms), in order
    \* ---- useInfiniteTours: one hook instance ----
    tours, currentPage, isLoading, error, hasMore,        \* state as of the last render
    nTours, nPage, nLoading, nError, nHasMore,            \* state after the queued setState calls
    isLoadingRef,  \* isLoadingRef.current
    batch,         \* updates queued since the last render: "clean" | "dirty" | "deferred"
    initialTours, totalCount, filterKey,                  \* props of the last render
    inflight,      \* loadMore invocations suspended in their fetch
    epoch,         \* history: number of prop changes so far
    issued,        \* history: number of requests issued so far
    reqLog,        \* history: the page numbers requested since the last reset
    refTotal,      \* history: the total hasMore was last derived from
    last,          \* history: the last handler that ran and changed something
    settled,       \* history: how the promise of each loadMore() call ended
    \* ---- batchGetPetTourInfo: one call of the function ----
    bPc,           \* "idle" | "running" | "done"
    bIds,          \* the tourIds argument
    bSize,         \* the batchSize argument
    bI,            \* the loop variable i
    bPending,      \* positions in tourIds whose lookup is in flight
    bResult,       \* the result map, contentId -> value
    bOut,          \* history: how the lookup of each position settled
    \* ---- one call of an API operation of tour-api.ts ----
    apiPc,         \* "idle" | "fetching" | "done"
    apiOp,         \* the operation called
    apiArgs,       \* its arguments
    apiKeys,       \* process.env.TOUR_API_KEY and NEXT_PUBLIC_TOUR_API_KEY at the call
    apiUrl,        \* the query parameters of the request URL, as <<name, value>> pairs
    apiBody,       \* the JSON body of the response fetchWithRetry returned
    apiParsed,     \* what parseApiResponse made of it: no error, or the error raised
    apiResult,     \* what the operation returned or raised
    \* ---- katecToWgs84: one call of the function ----
    kPc,           \* "idle" | "done"
    kMapx, kMapy,  \* the arguments
    kResult,       \* the coordinate returned, <<lng, lat>> in units of 1/Scale degree
    kWarned,       \* console.warn was called
    \* ---- GET /api/tours: one request ----
    rtPc,          \* "idle" | "awaiting" | "done"
    rtQuery,       \* the query parameters numOfRows, pageNo, keyword
    rtCalls,       \* history: the upstream operations called, with their paging arguments
    rtUpstream,    \* "none" | "pending" | "ok" | "raised"
    rtStatus,      \* the status of the response
    rtBody,        \* the JSON body of the response
    \* ---- buildQueryString: one application ----
    qsPc,          \* "idle" | "done"
    qsParams,      \* the params object, a set of <<name, value>> pairs
    qsOut,         \* the pairs of the query string
    \* ---- filterPetFriendlyTours: one call ----
    pfPc,          \* "idle" | "done"
    pfTours,       \* the tours argument, each tour reduced to its contentid
    pfMap,         \* the petInfoMap argument
    pfSize,        \* the petSize argument
    pfOut          \* the array returned

frVars == <<frPc, maxRetries, attempt, lastError, frResult, frLog, frDelays>>
hookVars == <<tours, currentPage, isLoading, error, hasMore,
              nTours, nPage, nLoading, nError, nHasMore,
              isLoadingRef, batch, initialTours, totalCount, filterKey,
              inflight, epoch, issued, reqLog, refTotal, last, settled>>
batchVars == <<bPc, bIds, bSize, bI, bPending, bResult, bOut>>
apiVars == <<apiPc, apiOp, apiArgs, apiKeys, apiUrl, apiBody, apiParsed, apiResult>>
katecVars == <<kPc, kMapx, kMapy, kResult, kWarned>>
routeVars == <<rtPc, rtQuery, rtCalls, rtUpstream, rtStatus, rtBody>>
queryVars == <<qsPc, qsParams, qsOut>>
petFilterVars == <<pfPc, pfTours, pfMap, pfSize, pfOut>>
utilVars == <<katecVars, routeVars, queryVars, petFilterVars>>
otherThanKatec == <<routeVars, queryVars, petFilterVars>>
otherThanRoute == <<katecVars, queryVars, petFilterVars>>
otherThanQuery == <<katecVars, routeVars, petFilterVars>>
otherThanPetFilter == <<katecVars, routeVars, queryVars>>
vars == <<frVars, hookVars, batchVars, apiVars, utilVars>>

(***************************************************************************)
(* Bounds of the model                                                     *)
(***************************************************************************)
MaxRetriesArg == 4     \* maxRetries ranges over 0..MaxRetriesArg
NumOfRows == 2         \* the numOfRows option (page size), scaled down from 20
DatasetSize == 5       \* items the server holds per filter key
MaxRequests == 2       \* requests one run issues at most
MaxPropChanges == 1    \* prop changes one run performs at most
MaxIds == 3            \* tourIds holds at most MaxIds ids
MaxBatchSize == 2      \* batchSize ranges over 1..MaxBatchSize
MaxItems == 2          \* an item array of a response holds at most MaxItems items

(***************************************************************************)
(* fetchWithRetry                                                          *)
(***************************************************************************)
DefaultMaxRetries == 3
DefaultTimeout == 30000

\* HTTP statuses a transport may answer with, one or two per class.
StatusCodes == {200, 304, 400, 404, 499, 500, 599}
\* What one network attempt can end in: a response, a thrown network error,
\* or the abort raised by the timeout timer.
Outcomes == [kind : {"response"}, status : StatusCodes]
            \cup {[kind |-> "neterr", status |-> 0],
                  [kind |-> "timeout", status |-> 0]}

NoError == <<"none", 0>>
UnknownError == <<"unknown", 0>>                  \* "알 수 없는 에러가 발생했습니다."
ApiError(status) == <<"api", status>>             \* `API 요청 실패: ${status}`
ServerError(status) == <<"server", status>>       \* `서버 에러: ${status}`
NetworkError == <<"network", 0>>                  \* the error fetch() threw
TimeoutError == <<"timeout", DefaultTimeout>>     \* `요청 시간 초과 (${timeout}ms)`

\* response.status >= 400 && response.status < 500
IsClientError(status) == status >= 400 /\ status < 500

RECURSIVE Pow2(_)
Pow2(n) == IF n <= 0 THEN 1 ELSE 2 * Pow2(n - 1)

\* const delay = Math.pow(2, attempt) * 1000
BackoffDelay(a) == Pow2(a) * 1000

\* Mutant: the loop runs one iteration too many.
LoopContinuesOffByOne(a, m) == a <= m

\* the loop condition: attempt < maxRetries
LoopContinues(a, m) == a < m

\* Mutant: the backoff is also waited after the last attempt.
NotLastAttemptAlways(a, m) == a < m

\* the guard of the backoff: attempt < maxRetries - 1
NotLastAttempt(a, m) == a < m - 1

\* Mutant: no response counts as ok.
ResponseOkNever(status) == FALSE

\* response.ok
ResponseOk(status) == status >= 200 /\ status <= 299

\* Mutant: the catch block has no AbortError branch.
CatchRethrowsNever(o) == FALSE

\* What the catch block does with an error thrown inside the try block:
\* an AbortError is rethrown as the timeout error, anything else is kept
\* in lastError and the loop goes on.
CatchRethrows(o) == o.kind = "timeout"

\* The error an attempt leaves in lastError (or raises, for a timeout).
ErrorOf(o) ==
    IF o.kind = "timeout" THEN TimeoutError
    ELSE IF o.kind = "neterr" THEN NetworkError
    ELSE IF IsClientError(o.status) THEN ApiError(o.status)
    ELSE ServerError(o.status)

FrInit ==
    /\ frPc = "idle"
    /\ maxRetries = DefaultMaxRetries
    /\ attempt = 0
    /\ lastError = NoError
    /\ frResult = NoError
    /\ frLog = <<>>
    /\ frDelays = <<>>

\* throw lastError || new Error("알 수 없는 에러가 발생했습니다.")
FinalError(e) == IF e = NoError THEN UnknownError ELSE e

\* fetchWithRetry(url, options, m): runs to the first await, the fetch of
\* attempt 0, or past the loop when it has no iteration.
FrStart(m) ==
    /\ frPc = "idle"
    /\ maxRetries' = m
    /\ attempt' = 0
    /\ lastError' = NoError
    /\ frLog' = <<>>
    /\ frDelays' = <<>>
    /\ IF LoopContinues(0, m)
         THEN frPc' = "fetch" /\ frResult' = NoError
         ELSE frPc' = "thrown" /\ frResult' = FinalError(NoError)

\* fetchWithRetry called on its own
FrCall(m) == FrStart(m) /\ UNCHANGED <<hookVars, batchVars, apiVars, utilVars>>

\* The awaited fetch settles with outcome o; the function runs on to its
\* next await (the backoff timer), its return or its throw.
FrSettle(o) ==
    /\ frPc = "fetch"
    /\ frLog' = Append(frLog, o)
    /\ IF o.kind = "response" /\ ResponseOk(o.status)
         THEN \* return response
              /\ frPc' = "returned"
              /\ frResult' = <<"response", o.status>>
              /\ UNCHANGED <<attempt, lastError, frDelays>>
         ELSE IF CatchRethrows(o)
         THEN \* throw new Error(`요청 시간 초과 (${timeout}ms)`), out of the catch block
              /\ frPc' = "thrown"
              /\ frResult' = ErrorOf(o)
              /\ UNCHANGED <<attempt, lastError, frDelays>>
         ELSE \* lastError is set: by the 5xx branch, or by the catch block,
              \* which also catches the error the 4xx branch throws
              /\ lastError' = ErrorOf(o)
              /\ IF NotLastAttempt(attempt, maxRetries)
                   THEN /\ frPc' = "backoff"
                        /\ frDelays' = Append(frDelays, BackoffDelay(attempt))
                        /\ UNCHANGED <<attempt, frResult>>
                   ELSE \* attempt++, then the loop condition
                        /\ attempt' = attempt + 1
                        /\ UNCHANGED frDelays
                        /\ IF LoopContinues(attempt + 1, maxRetries)
                             THEN frPc' = "fetch" /\ UNCHANGED frResult
                             ELSE /\ frPc' = "thrown"
                                  /\ frResult' = FinalError(ErrorOf(o))
    /\ UNCHANGED <<maxRetries, hookVars, batchVars, apiVars, utilVars>>

\* The backoff timer fires: attempt++, the loop condition, the next fetch.
FrWake ==
    /\ frPc = "backoff"
    /\ attempt' = attempt + 1
    /\ IF LoopContinues(attempt + 1, maxRetries)
         THEN frPc' = "fetch" /\ UNCHANGED frResult
         ELSE frPc' = "thrown" /\ frResult' = FinalError(lastError)
    /\ UNCHANGED <<maxRetries, lastError, frLog, frDelays, hookVars, batchVars, apiVars, utilVars>>

FrNext ==
    \/ \E m \in 0..MaxRetriesArg : FrCall(m)
    \/ \E o \in Outcomes : FrSettle(o)
    \/ FrWake

(***************************************************************************)
(* useInfiniteTours                                                        *)
(*                                                                         *)
(* React semantics the model keeps: a setState call queues an update; the  *)
(* values the hook returns, and the values the loadMore and reset closures *)
(* read (currentPage, hasMore, the props), are those of the last render.   *)
(* isLoadingRef.current is a plain mutable cell, written at once.          *)
(* tours..hasMore hold the rendered state, nTours..nHasMore the state the  *)
(* queued updates lead to; Render commits the latter.                      *)
(*                                                                         *)
(* The updater passed to setTours calls setHasMore. React runs an updater  *)
(* at the setTours call when the component has no update pending (the      *)
(* eager path of dispatchSetState), and otherwise when the next render     *)
(* processes the queue: setHasMore is then a render-phase update, applied  *)
(* after every update queued before that render, those of a later reset()  *)
(* included. batch records which case the next render is in.               *)
(***************************************************************************)
Keys == {1, 2}            \* filter keys (keyword, areaCode, contentTypeId)
NoMsg == "null"
FailureMsgs == {"http", "network", "format"}
    \* errorData.error || `HTTP ${status}`, the message of the error fetch
    \* threw, "잘못된 응답 형식입니다."

Min(a, b) == IF a < b THEN a ELSE b

\* The server's listing for key k: DatasetSize items with distinct ids.
Dataset(k) == [i \in 1..DatasetSize |-> k * 100 + i]

\* GET /api/tours?numOfRows=..&pageNo=p for key k: the p-th page, empty
\* past the end.
Page(k, p) ==
    LET lo == (p - 1) * NumOfRows + 1
        hi == Min(p * NumOfRows, DatasetSize)
    IN  IF lo > hi THEN <<>> ELSE SubSeq(Dataset(k), lo, hi)

\* The first page a caller may seed the hook with: no result, or page 1.
InitialLists(k) == {<<>>, Page(k, 1)}
\* totalCount values, of the seed and of a response: nothing, one page, the
\* whole dataset.
Totals == {0, NumOfRows, DatasetSize}

\* useState(initialTours.length < totalCount), and the same in reset()
InitialHasMore(init, total) == Len(init) < total

\* const nextPage = currentPage + 1
NextPage(page) == page + 1

\* if (isLoadingRef.current || !hasMore) return
LoadMoreBlocked(ref, more) == ref \/ ~more

\* isLoadingRef.current = false, in reset()
ResetRef == FALSE

\* setCurrentPage(1), in reset()
ResetPage == 1

\* Mutant: loadMore has no finally block, the guard stays set.
FinallyRefKept == isLoadingRef

\* isLoadingRef.current = false, in the finally block of loadMore
FinallyRef == FALSE

\* Mutant: loadMore has no catch block, the error leaves the function.
CaughtOutcomeRejected == "rejected"

\* catch (err) { setError(...); console.error(...) }: nothing is rethrown,
\* the promise of loadMore is fulfilled
CaughtOutcome == "fulfilled"

\* Mutant: the fetched page replaces the accumulated list.
AppendItemsReplace(prev, items) == items

\* const newTours = [...prev, ...data.items]
AppendItems(prev, items) == prev \o items

\* const newHasMore = newTours.length < data.totalCount
NewHasMore(newTours, total) == Len(newTours) < total

\* setCurrentPage(nextPage), nextPage being the one computed before the fetch
PageAfterSuccess(requested) == requested

HookInit ==
    /\ filterKey = 1
    /\ initialTours \in InitialLists(filterKey)
    /\ totalCount \in Totals
    /\ tours = initialTours /\ nTours = initialTours
    /\ currentPage = 1 /\ nPage = 1
    /\ isLoading = FALSE /\ nLoading = FALSE
    /\ error = NoMsg /\ nError = NoMsg
    /\ hasMore = InitialHasMore(initialTours, totalCount)
    /\ nHasMore = InitialHasMore(initialTours, totalCount)
    /\ isLoadingRef = FALSE
    /\ batch = "clean"
    /\ inflight = {}
    /\ epoch = 0
    /\ issued = 0
    /\ reqLog = <<>>
    /\ refTotal = totalCount
    /\ last = "init"
    /\ settled = {}

HookIdle ==
    /\ filterKey = 1
    /\ initialTours = <<>>
    /\ totalCount = 0
    /\ tours = <<>> /\ nTours = <<>>
    /\ currentPage = 1 /\ nPage = 1
    /\ isLoading = FALSE /\ nLoading = FALSE
    /\ error = NoMsg /\ nError = NoMsg
    /\ hasMore = FALSE /\ nHasMore = FALSE
    /\ isLoadingRef = FALSE
    /\ batch = "clean"
    /\ inflight = {}
    /\ epoch = 0
    /\ issued = 0
    /\ reqLog = <<>>
    /\ refTotal = 0
    /\ last = "init"
    /\ settled = {}

propVars == <<initialTours, totalCount, filterKey>>
renderedVars == <<tours, currentPage, isLoading, error, hasMore>>
queuedVars == <<nTours, nPage, nLoading, nError, nHasMore>>

\* The component after a handler queued the state q: a setState call made
\* while nothing is pending and giving the rendered value back schedules
\* nothing; any other call leaves an update pending.
Queued(b, q) ==
    IF b = "clean" /\ q = <<tours, currentPage, isLoading, error, hasMore>>
      THEN "clean"
      ELSE IF b = "clean" THEN "dirty" ELSE b

\* The number of requests issued and not yet settled.
InFlightCount == Cardinality(inflight)

\* loadMore(), the closure of the last render, up to its first await: the
\* guard, then the flags and the fetch of page currentPage + 1.
LoadMore ==
    /\ IF LoadMoreBlocked(isLoadingRef, hasMore)
         THEN UNCHANGED <<isLoadingRef, batch, queuedVars, inflight, issued, reqLog, last>>
         ELSE /\ issued < MaxRequests
              /\ batch' = Queued(batch, <<nTours, nPage, TRUE, NoMsg, nHasMore>>)
              /\ last' = "loadMore"
              /\ issued' = issued + 1
              /\ isLoadingRef' = TRUE
              /\ nLoading' = TRUE
              /\ nError' = NoMsg
              /\ inflight' = inflight \cup
                     {[id |-> issued + 1, page |-> NextPage(currentPage), key |-> filterKey]}
              /\ reqLog' = Append(reqLog, NextPage(currentPage))
              /\ UNCHANGED <<nTours, nPage, nHasMore>>
    /\ UNCHANGED <<renderedVars, propVars, epoch, refTotal, settled, frVars, batchVars, apiVars, utilVars>>

\* The fetch of invocation r resolved with an ok response whose body holds
\* an items array; the invocation runs to its end. newTours is a new array,
\* so setTours always leaves an update pending; its updater is deferred to
\* the next render when an update was pending already.
FetchSuccess(r, total) ==
    /\ r \in inflight
    /\ inflight' = inflight \ {r}
    /\ nTours' = AppendItems(nTours, Page(r.key, r.page))
    /\ nHasMore' = NewHasMore(AppendItems(nTours, Page(r.key, r.page)), total)
    /\ nPage' = PageAfterSuccess(r.page)
    /\ nLoading' = FALSE
    /\ isLoadingRef' = FinallyRef
    /\ batch' = (IF batch = "clean" THEN "dirty" ELSE "deferred")
    /\ refTotal' = total
    /\ last' = "fetchOk"
    /\ settled' = settled \cup {<<r.id, "fulfilled">>}
    /\ UNCHANGED <<nError, renderedVars, propVars, epoch, issued, reqLog, frVars, batchVars, apiVars, utilVars>>

\* The fetch of invocation r failed: a non-ok status, a thrown network
\* error, or a body whose items is no array. The catch block, then finally.
FetchFail(r, msg) ==
    /\ r \in inflight
    /\ inflight' = inflight \ {r}
    /\ nError' = msg
    /\ nLoading' = FALSE
    /\ isLoadingRef' = FinallyRef
    /\ batch' = Queued(batch, <<nTours, nPage, FALSE, msg, nHasMore>>)
    /\ last' = "fetchFail"
    /\ settled' = settled \cup {<<r.id, CaughtOutcome>>}
    /\ UNCHANGED <<refTotal, nTours, nPage, nHasMore, renderedVars, propVars, epoch, issued, reqLog, frVars, batchVars, apiVars, utilVars>>

\* reset(), the closure of the last render. Its setHasMore is queued before
\* the setHasMore a deferred updater will make during the next render, so
\* that one's value is the one the render yields.
Reset ==
    /\ nTours' = initialTours
    /\ nPage' = ResetPage
    /\ nError' = NoMsg
    /\ nLoading' = FALSE
    /\ nHasMore' = (IF batch = "deferred"
                      THEN nHasMore
                      ELSE InitialHasMore(initialTours, totalCount))
    /\ isLoadingRef' = ResetRef
    /\ batch' = Queued(batch, <<initialTours, ResetPage, FALSE, NoMsg,
                                 InitialHasMore(initialTours, totalCount)>>)
    /\ refTotal' = totalCount
    /\ reqLog' = <<>>
    /\ last' = "reset"
    /\ UNCHANGED <<renderedVars, propVars, inflight, epoch, issued, settled, frVars, batchVars, apiVars, utilVars>>

\* React renders the component: the queued updates become the state the
\* hook returns and its closures read.
Render ==
    /\ batch # "clean"
    /\ batch' = "clean"
    /\ tours' = nTours
    /\ currentPage' = nPage
    /\ isLoading' = nLoading
    /\ error' = nError
    /\ hasMore' = nHasMore
    /\ UNCHANGED <<last, queuedVars, isLoadingRef, propVars, inflight, epoch, issued, reqLog, refTotal, settled, frVars, batchVars, apiVars, utilVars>>

\* The parent renders the hook with new props (a new filter key, or new
\* initial data): the render commits what was queued, then the effect on
\* [keyword, areaCode, contentTypeId, reset] runs the new reset().
PropsChange(k, init, total) ==
    /\ epoch < MaxPropChanges
    /\ epoch' = epoch + 1
    /\ filterKey' = k
    /\ initialTours' = init
    /\ totalCount' = total
    /\ tours' = nTours
    /\ currentPage' = nPage
    /\ isLoading' = nLoading
    /\ error' = nError
    /\ hasMore' = nHasMore
    /\ nTours' = init
    /\ nPage' = ResetPage
    /\ nError' = NoMsg
    /\ nLoading' = FALSE
    /\ nHasMore' = InitialHasMore(init, total)
    /\ isLoadingRef' = ResetRef
    /\ batch' = (IF <<init, ResetPage, FALSE, NoMsg, InitialHasMore(init, total)>>
                       = <<nTours, nPage, nLoading, nError, nHasMore>>
                    THEN "clean" ELSE "dirty")
    /\ refTotal' = total
    /\ reqLog' = <<>>
    /\ last' = "propsChange"
    /\ UNCHANGED <<inflight, issued, settled, frVars, batchVars, apiVars, utilVars>>

HookNext ==
    \/ LoadMore
    \/ \E r \in inflight, total \in Totals : FetchSuccess(r, total)
    \/ \E r \in inflight, msg \in FailureMsgs : FetchFail(r, msg)
    \/ Reset
    \/ Render
    \/ \E k \in Keys : \E init \in InitialLists(k), total \in Totals : PropsChange(k, init, total)

(***************************************************************************)
(* batchGetPetTourInfo                                                     *)
(*                                                                         *)
(* A position p of tourIds stands for the lookup batch.map starts for      *)
(* tourIds[p]; the same id may occur at several positions.                 *)
(***************************************************************************)
ContentIds == {"a", "b", "c"}
\* How getDetailPetTour(contentId) settles: it resolves to the pet info, it
\* resolves to null (no data), or it rejects.
LookupOutcomes == {"info", "none", "throw"}
NullInfo == <<"null", "">>
PetInfo(id) == <<"info", id>>

\* tourIds arguments: every list of at most MaxIds ids
RECURSIVE SeqsUpTo(_, _)
SeqsUpTo(S, n) ==
    IF n = 0 THEN {<<>>}
    ELSE LET shorter == SeqsUpTo(S, n - 1)
         IN  shorter \cup {Append(q, x) : q \in {t \in shorter : Len(t) = n - 1}, x \in S}

\* Mutant: the catch block passes the failure on as if it were pet info.
PetInfoOrNullNoCatch(out, id) == PetInfo(id)

\* try { petInfo = await getDetailPetTour(contentId) } catch { petInfo = null }
PetInfoOrNull(out, id) == IF out = "info" THEN PetInfo(id) ELSE NullInfo

\* Mutant: the whole list is one chunk.
ChunkEndWholeList(i, size, len) == len

\* tourIds.slice(i, i + batchSize) ends at position min(i + batchSize, len)
ChunkEnd(i, size, len) == Min(i + size, len)

\* result.set(id, v)
MapSet(map, id, v) == [x \in DOMAIN map \cup {id} |-> IF x = id THEN v ELSE map[x]]

\* batchResults.forEach over the chunk at positions lo..hi, in order; every
\* entry is fulfilled, the mapped function catching its own errors.
RECURSIVE StoreChunk(_, _, _, _, _)
StoreChunk(map, ids, out, lo, hi) ==
    IF lo > hi THEN map
    ELSE StoreChunk(MapSet(map, ids[lo], PetInfoOrNull(out[lo], ids[lo])),
                    ids, out, lo + 1, hi)

BatchIdle ==
    /\ bPc = "idle"
    /\ bIds = <<>>
    /\ bSize = 1
    /\ bI = 0
    /\ bPending = {}
    /\ bResult = <<>>
    /\ bOut = <<>>

\* batchGetPetTourInfo(ids, size) up to its first await: the first chunk's
\* lookups are started, or the empty map is returned for an empty list.
BatchCall(ids, size) ==
    /\ bPc = "idle"
    /\ bIds' = ids
    /\ bSize' = size
    /\ bI' = 0
    /\ bResult' = <<>>
    /\ bOut' = <<>>
    /\ IF 0 < Len(ids)
         THEN bPc' = "running" /\ bPending' = 1..ChunkEnd(0, size, Len(ids))
         ELSE bPc' = "done" /\ bPending' = {}
    /\ UNCHANGED <<frVars, hookVars, apiVars, utilVars>>

\* The lookup of position p settles. When it is the last of its chunk,
\* Promise.allSettled resolves: the chunk's values are stored, i advances
\* and the next chunk's lookups are started, or the map is returned.
BatchSettle(p, out) ==
    /\ bPc = "running"
    /\ p \in bPending
    /\ bOut' = [q \in DOMAIN bOut \cup {p} |-> IF q = p THEN out ELSE bOut[q]]
    /\ IF bPending = {p}
         THEN /\ bResult' = StoreChunk(bResult, bIds, bOut', bI + 1,
                                       ChunkEnd(bI, bSize, Len(bIds)))
              /\ bI' = bI + bSize
              /\ IF bI + bSize < Len(bIds)
                   THEN /\ bPc' = "running"
                        /\ bPending' = (bI + bSize + 1)..ChunkEnd(bI + bSize, bSize, Len(bIds))
                   ELSE /\ bPc' = "done"
                        /\ bPending' = {}
         ELSE /\ bPending' = bPending \ {p}
              /\ UNCHANGED <<bPc, bI, bResult>>
    /\ UNCHANGED <<bIds, bSize, frVars, hookVars, apiVars, utilVars>>

BatchNext ==
    \/ \E ids \in SeqsUpTo(ContentIds, MaxIds), size \in 1..MaxBatchSize : BatchCall(ids, size)
    \/ \E p \in bPending, out \in LookupOutcomes : BatchSettle(p, out)

(***************************************************************************)
(* The API operations of tour-api.ts                                       *)
(***************************************************************************)
ListOps == {"getAreaCode", "getAreaBasedList", "searchKeyword", "getDetailImage"}
DetailOps == {"getDetailCommon", "getDetailIntro"}
PetOp == "getDetailPetTour"
ApiOps == ListOps \cup DetailOps \cup {PetOp}

SuccessCode == "0000"
ResultCodes == {SuccessCode, "03", "99"}
LookupFailedText == "lookup failed"     \* stands for a message holding "조회 실패"
ResultMsgs == {"SERVICE ERROR", LookupFailedText}

\* The JSON body of a response, as far as the client looks into it:
\*   response  data.response is present (truthy)
\*   header    data.response.header is present
\*   code, msg header.resultCode, header.resultMsg
\*   body      data.response.body is present
\*   items     body.items: "absent" (undefined or null), "empty" (the empty
\*             string the upstream sends for no result), "object"
\*   item, n   items.item: "absent", "object", or "array" of n items
Envelope(resp, hdr, code, msg, body, items, item, n) ==
    [response |-> resp, header |-> hdr, code |-> code, msg |-> msg,
     body |-> body, items |-> items, item |-> item, n |-> n]
NoBody == Envelope(FALSE, FALSE, SuccessCode, "OK", FALSE, "absent", "absent", 0)
ItemShapes == {<<"absent", 0>>, <<"object", 1>>} \cup {<<"array", n>> : n \in 0..MaxItems}
Envelopes ==
    {NoBody}
    \cup {Envelope(TRUE, FALSE, SuccessCode, "OK", FALSE, "absent", "absent", 0)}
    \cup {Envelope(TRUE, TRUE, c, m, b, "object", "object", 1) :
              c \in ResultCodes \ {SuccessCode}, m \in ResultMsgs, b \in BOOLEAN}
    \cup {Envelope(TRUE, TRUE, SuccessCode, "OK", FALSE, "absent", "absent", 0)}
    \cup {Envelope(TRUE, TRUE, SuccessCode, "OK", TRUE, i, "absent", 0) : i \in {"absent", "empty"}}
    \cup {Envelope(TRUE, TRUE, SuccessCode, "OK", TRUE, "object", sh[1], sh[2]) : sh \in ItemShapes}

\* Errors, as <<kind, detail, detail>>
NoApiError == <<"none", "", "">>
FormatError == <<"format", "", "">>                 \* "API 응답 형식이 올바르지 않습니다."
UpstreamError(code, msg) == <<"upstream", code, msg>>   \* `API 에러: ${resultCode} - ${resultMsg}`
TypeErr == <<"TypeError", "", "">>                  \* reading a property of undefined
NotFoundError == <<"notfound", "", "">>             \* "...정보를 찾을 수 없습니다."
TransportError(e) == <<"transport", e[1], "">>      \* the error fetchWithRetry raised

\* Mutant: the result code is not looked at.
ResultCodeOkAlways(code) == TRUE

\* header.resultCode !== "0000", negated
ResultCodeOk(code) == code = SuccessCode

\* parseApiResponse: the error it raises, or NoApiError when it returns data
ParseApiResponse(env) ==
    IF ~env.response THEN FormatError
    ELSE IF ~env.header THEN TypeErr
    ELSE IF ~ResultCodeOk(env.code) THEN UpstreamError(env.code, env.msg)
    ELSE NoApiError

\* const items = data.response.body.items.item
RawItems(env) ==
    IF ~env.body \/ env.items = "absent"
      THEN [thrown |-> TRUE, kind |-> "undefined", n |-> 0]
      ELSE IF env.items = "empty" \/ env.item = "absent"
             THEN [thrown |-> FALSE, kind |-> "undefined", n |-> 0]
             ELSE [thrown |-> FALSE, kind |-> env.item, n |-> env.n]

ItemSeq(n) == [i \in 1..n |-> i]

\* Array.isArray(items) ? items : items ? [items] : []
NormalizeItems(raw) ==
    IF raw.kind = "array" THEN ItemSeq(raw.n)
    ELSE IF raw.kind = "object" THEN <<1>>
    ELSE <<>>

\* What an operation ends in: kind is "list", "item", "null", "undefined"
\* or "raised" (err then holds the error the operation wrapped).
ApiReturn(kind, items) == [kind |-> kind, items |-> items, err |-> NoApiError]
ApiRaise(e) == [kind |-> "raised", items |-> <<>>, err |-> e]
NoResult == [kind |-> "none", items |-> <<>>, err |-> NoApiError]

\* error.message.includes("조회 실패"): of the messages built above only one
\* that quotes the upstream's resultMsg can contain the text
MessageIncludesLookupFailed(e) == e[1] = "upstream" /\ e[3] = LookupFailedText

\* The catch block of an operation: the error is wrapped and rethrown;
\* getDetailPetTour returns null when the message includes "조회 실패".
Caught(op, e) ==
    IF op = PetOp /\ MessageIncludesLookupFailed(e)
      THEN ApiReturn("null", <<>>)
      ELSE ApiRaise(e)

\* The try block of an operation from the parsed envelope on.
AfterParse(op, env) ==
    LET raw == RawItems(env)
    IN  IF raw.thrown THEN Caught(op, TypeErr)
        ELSE IF op \in ListOps THEN ApiReturn("list", NormalizeItems(raw))
        ELSE IF op \in DetailOps
               THEN IF raw.kind = "undefined" \/ (raw.kind = "array" /\ raw.n = 0)
                      THEN Caught(op, NotFoundError)
                      ELSE ApiReturn("item", <<1>>)
        ELSE IF raw.kind = "undefined" THEN ApiReturn("null", <<>>)
        ELSE IF raw.kind = "array" /\ raw.n = 0 THEN ApiReturn("undefined", <<>>)
        ELSE ApiReturn("item", <<1>>)

\* JavaScript values of string-typed inputs: undefined, null, the empty
\* string, a blank string, and strings with content.
Undef == "undefined"
Null == "null"
\* !value is false
Truthy(v) == v \notin {Undef, Null, ""}
\* value.trim(), on the strings the model uses
Trim(v) == IF v = " " THEN "" ELSE IF v = " jeju " THEN "jeju" ELSE v

\* The arguments of a call; an operation reads only its own.
Args(kw, id, type, area) ==
    [keyword |-> kw, contentId |-> id, contentTypeId |-> type, areaCode |-> area]
NoArgs == Args(Undef, Undef, Undef, Undef)
KeywordValues == {Undef, "", " ", " jeju "}
IdValues == {Undef, "", "125266"}
TypeValues == {Undef, "", "12"}
AreaValues == {Undef, "", "1"}
ArgsOf(op) ==
    IF op = "getAreaCode" THEN {NoArgs}
    ELSE IF op = "getAreaBasedList"
           THEN {Args(Undef, Undef, t, a) : t \in TypeValues, a \in AreaValues}
    ELSE IF op = "searchKeyword"
           THEN {Args(k, Undef, t, a) : k \in KeywordValues, t \in {Undef, "12"}, a \in {Undef, "1"}}
    ELSE IF op = "getDetailIntro"
           THEN {Args(Undef, i, t, Undef) : i \in IdValues, t \in TypeValues}
    ELSE {Args(Undef, i, Undef, Undef) : i \in IdValues}

\* The two environment variables.
KeySets == [tour : {Undef, "", "key-a"}, pub : {Undef, "key-b"}]
NoKeys == [tour |-> Undef, pub |-> Undef]

MissingParamError == <<"missing", "", "">>   \* "콘텐츠 ID가 필요합니다." and the like
ConfigError == <<"config", "", "">>          \* "한국관광공사 API 키가 설정되지 않았습니다. ..."

\* Mutant: the keyword is not trimmed before the check.
KeywordMissingNoTrim(kw) == ~Truthy(kw)

\* !keyword || keyword.trim() === ""
KeywordMissing(kw) == ~Truthy(kw) \/ Trim(kw) = ""

\* The guard at the top of an operation.
ArgsMissing(op, a) ==
    IF op = "searchKeyword" THEN KeywordMissing(a.keyword)
    ELSE IF op = "getDetailIntro" THEN ~Truthy(a.contentId) \/ ~Truthy(a.contentTypeId)
    ELSE IF op \in {"getDetailCommon", "getDetailImage", PetOp} THEN ~Truthy(a.contentId)
    ELSE FALSE

\* process.env.TOUR_API_KEY || process.env.NEXT_PUBLIC_TOUR_API_KEY
ServiceKey(keys) == IF Truthy(keys.tour) THEN keys.tour ELSE keys.pub

\* Mutant: getCommonParams does not check the key.
KeyMissingNever(sk) == FALSE

\* if (!serviceKey)
KeyMissing(sk) == ~Truthy(sk)

\* getCommonParams(), when it returns
CommonParams(keys) ==
    {<<"serviceKey", ServiceKey(keys)>>, <<"MobileOS", "ETC">>,
     <<"MobileApp", "MyTrip">>, <<"_type", "json">>}

\* ...(value && { name: value })
Optional(name, v) == IF Truthy(v) THEN {<<name, v>>} ELSE {}

\* The params object an operation builds; numOfRows and pageNo take their
\* defaults.
ParamsOf(op, a, keys) ==
    CommonParams(keys) \cup
    (IF op = "getAreaCode" THEN {<<"numOfRows", "10">>, <<"pageNo", "1">>}
     ELSE IF op = "getAreaBasedList"
       THEN {<<"numOfRows", "10">>, <<"pageNo", "1">>}
            \cup Optional("areaCode", a.areaCode)
            \cup Optional("contentTypeId", a.contentTypeId)
     ELSE IF op = "searchKeyword"
       THEN {<<"keyword", Trim(a.keyword)>>, <<"numOfRows", "10">>, <<"pageNo", "1">>}
            \cup Optional("areaCode", a.areaCode)
            \cup Optional("contentTypeId", a.contentTypeId)
     ELSE IF op = "getDetailCommon"
       THEN {<<"contentId", a.contentId>>, <<"defaultYN", "Y">>, <<"firstImageYN", "Y">>,
             <<"areacodeYN", "Y">>, <<"catcodeYN", "Y">>, <<"addrinfoYN", "Y">>,
             <<"mapinfoYN", "Y">>, <<"overviewYN", "Y">>}
     ELSE IF op = "getDetailIntro"
       THEN {<<"contentId", a.contentId>>, <<"contentTypeId", a.contentTypeId>>}
     ELSE IF op = "getDetailImage"
       THEN {<<"contentId", a.contentId>>, <<"imageYN", "Y">>, <<"subImageYN", "Y">>}
     ELSE {<<"contentId", a.contentId>>})

\* Mutant: every parameter is emitted.
EmittedAlways(v) == TRUE

\* value !== undefined && value !== null && value !== ""
Emitted(v) == v # Undef /\ v # Null /\ v # ""

\* buildQueryString(params): the pairs appended to the URLSearchParams
BuildQueryString(params) == {q \in params : Emitted(q[2])}

ApiIdle ==
    /\ apiPc = "idle"
    /\ apiOp = "none"
    /\ apiArgs = NoArgs
    /\ apiKeys = NoKeys
    /\ apiUrl = {}
    /\ apiBody = NoBody
    /\ apiParsed = NoApiError
    /\ apiResult = NoResult

\* An operation is called with arguments a while the environment holds
\* keys: the guard on the required inputs, getCommonParams, then the URL
\* and fetchWithRetry(url), maxRetries defaulting to 3. The first two raise
\* outside the try block, so their errors are not wrapped.
ApiCall(op, a, keys) ==
    /\ apiPc = "idle"
    /\ apiOp' = op
    /\ apiArgs' = a
    /\ apiKeys' = keys
    /\ IF ArgsMissing(op, a)
         THEN /\ apiPc' = "done"
              /\ apiResult' = ApiRaise(MissingParamError)
              /\ UNCHANGED <<apiUrl, frVars>>
         ELSE IF KeyMissing(ServiceKey(keys))
                THEN /\ apiPc' = "done"
                     /\ apiResult' = ApiRaise(ConfigError)
                     /\ UNCHANGED <<apiUrl, frVars>>
                ELSE /\ apiPc' = "fetching"
                     /\ apiUrl' = BuildQueryString(ParamsOf(op, a, keys))
                     /\ FrStart(DefaultMaxRetries)
                     /\ UNCHANGED apiResult
    /\ UNCHANGED <<apiBody, apiParsed, hookVars, batchVars, utilVars>>

\* fetchWithRetry returned a response with body env: parseApiResponse, the
\* item normalisation, the return or the catch block.
ApiParse(env) ==
    /\ apiPc = "fetching"
    /\ frPc = "returned"
    /\ apiBody' = env
    /\ apiParsed' = ParseApiResponse(env)
    /\ apiResult' = (IF ParseApiResponse(env) # NoApiError
                       THEN Caught(apiOp, ParseApiResponse(env))
                       ELSE AfterParse(apiOp, env))
    /\ apiPc' = "done"
    /\ UNCHANGED <<apiOp, apiArgs, apiKeys, apiUrl, frVars, hookVars, batchVars, utilVars>>

\* fetchWithRetry raised: the catch block.
ApiCatch ==
    /\ apiPc = "fetching"
    /\ frPc = "thrown"
    /\ apiResult' = Caught(apiOp, TransportError(frResult))
    /\ apiPc' = "done"
    /\ UNCHANGED <<apiOp, apiArgs, apiKeys, apiUrl, apiBody, apiParsed, frVars, hookVars, batchVars, utilVars>>

ApiNext ==
    \/ \E op \in ApiOps : \E a \in ArgsOf(op), keys \in KeySets : ApiCall(op, a, keys)
    \/ \E o \in Outcomes : FrSettle(o)
    \/ FrWake
    \/ \E env \in Envelopes : ApiParse(env)
    \/ ApiCatch

(***************************************************************************)
(* katecToWgs84                                                            *)
(*                                                                         *)
(* An argument is a string (or undefined). The model keeps of it what      *)
(* parseFloat makes of it: "number" is a decimal numeral of value val,     *)
(* "prefixed" a numeral of value val followed by other characters (which   *)
(* parseFloat ignores), "text" a string with no numeral at its start (NaN).*)
(* Coordinates are counted in units of 1/Scale degree, so that the         *)
(* division by Scale is exact in the integers.                             *)
(***************************************************************************)
Scale == 10000000
LngMin == 124
LngMax == 132
LatMin == 33
LatMax == 43
\* const defaultCoords = { lat: 37.5665, lng: 126.9780 }
DefaultCoords == <<1269780000, 375665000>>

CoordText(kind, val) == [kind |-> kind, val |-> val]
MapxValues == {-1269817570, 0, 1239999999, 1240000000, 1269817570, 1320000000, 1320000001}
MapyValues == {-375794670, 0, 329999999, 330000000, 375794670, 430000000, 430000001}
CoordTexts(values) ==
    {CoordText("undefined", 0), CoordText("empty", 0), CoordText("text", 0)}
    \cup {CoordText(k, v) : k \in {"number", "prefixed"}, v \in values}

\* !mapx
CoordFalsy(t) == t.kind \in {"undefined", "empty"}
\* isNaN(parseFloat(mapx))
ParsesToNaN(t) == t.kind = "text"
\* parseFloat(mapx), when it is a number
ParseFloat(t) == t.val

\* Mutant: the converted pair is not checked against the box.
OutOfKoreaNever(lng, lat) == FALSE

\* lng < 124 || lng > 132 || lat < 33 || lat > 43, lng and lat being the
\* parsed values divided by Scale
OutOfKorea(lng, lat) ==
    \/ lng < LngMin * Scale \/ lng > LngMax * Scale
    \/ lat < LatMin * Scale \/ lat > LatMax * Scale

\* katecToWgs84(mapx, mapy): <<the coordinate returned, warning logged>>
KatecToWgs84(mapx, mapy) ==
    IF CoordFalsy(mapx) \/ CoordFalsy(mapy) THEN <<DefaultCoords, TRUE>>
    ELSE IF ParsesToNaN(mapx) \/ ParsesToNaN(mapy)
            \/ ParseFloat(mapx) = 0 \/ ParseFloat(mapy) = 0
           THEN <<DefaultCoords, TRUE>>
    ELSE IF OutOfKorea(ParseFloat(mapx), ParseFloat(mapy)) THEN <<DefaultCoords, TRUE>>
    ELSE <<<<ParseFloat(mapx), ParseFloat(mapy)>>, FALSE>>

KatecIdle ==
    /\ kPc = "idle"
    /\ kMapx = CoordText("undefined", 0)
    /\ kMapy = CoordText("undefined", 0)
    /\ kResult = <<0, 0>>
    /\ kWarned = FALSE

KatecInit ==
    /\ kPc = "idle"
    /\ kMapx \in CoordTexts(MapxValues)
    /\ kMapy \in CoordTexts(MapyValues)
    /\ kResult = <<0, 0>>
    /\ kWarned = FALSE

KatecCall ==
    /\ kPc = "idle"
    /\ kPc' = "done"
    /\ kResult' = KatecToWgs84(kMapx, kMapy)[1]
    /\ kWarned' = KatecToWgs84(kMapx, kMapy)[2]
    /\ UNCHANGED <<kMapx, kMapy, otherThanKatec, frVars, hookVars, batchVars, apiVars>>

(***************************************************************************)
(* GET /api/tours                                                          *)
(*                                                                         *)
(* A query parameter is kept as what parseInt(text, 10) makes of it:       *)
(* "absent" (searchParams.get gives null) and "empty" take the default,    *)
(* "number" is an integer numeral, "prefixed" an integer numeral followed  *)
(* by other characters and "decimal" a numeral with a fraction (parseInt   *)
(* reads the leading integer of both), "text" has no numeral (NaN).        *)
(***************************************************************************)
QueryText(kind, val) == [kind |-> kind, val |-> val]
NumOfRowsValues == {-1, 0, 1, 100, 101}
PageNoValues == {-1, 0, 1, 2}
QueryTexts(values) ==
    {QueryText("absent", 0), QueryText("empty", 0), QueryText("text", 0)}
    \cup {QueryText(k, v) : k \in {"number", "prefixed", "decimal"}, v \in values}
RouteKeywords == {Null, "", " ", " jeju "}
Queries == [numOfRows : QueryTexts(NumOfRowsValues),
            pageNo : QueryTexts(PageNoValues),
            keyword : RouteKeywords]

DefaultNumOfRows == 20
DefaultPageNo == 1
MinNumOfRows == 1
MaxNumOfRows == 100
MinPageNo == 1

\* A JavaScript number: an integer or NaN
Num(v) == [nan |-> FALSE, val |-> v]
NaN == [nan |-> TRUE, val |-> 0]
\* a < b and a > b, false when an operand is NaN
NumLess(a, b) == ~a.nan /\ ~b.nan /\ a.val < b.val
NumGreater(a, b) == ~a.nan /\ ~b.nan /\ a.val > b.val

\* parseInt(searchParams.get(name) || default, 10)
ParseIntOr(t, default) ==
    IF t.kind \in {"absent", "empty"} THEN Num(default)
    ELSE IF t.kind = "text" THEN NaN
    ELSE Num(t.val)

\* numOfRows < 1 || numOfRows > 100
NumOfRowsRejected(n) == NumLess(n, Num(MinNumOfRows)) \/ NumGreater(n, Num(MaxNumOfRows))
\* pageNo < 1
PageNoRejected(n) == NumLess(n, Num(MinPageNo))

\* Mutant: the keyword is not trimmed before the test.
IsSearchModeNoTrim(kw) == Truthy(kw)

\* keyword && keyword.trim() !== ""
IsSearchMode(kw) == Truthy(kw) /\ Trim(kw) # ""

\* What the message of an upstream failure contains, as far as
\* getErrorCode looks: the first of its words that the message contains
\* ("시간 초과", "network", "인증", "not found", "validation", "api"), or none
FailureKinds == {"timeout", "network", "unauthorized", "not found", "validation",
                 "api", "other"}
\* getErrorCode(error), for an Error instance
GetErrorCode(kind) ==
    IF kind = "timeout" THEN "TIMEOUT_ERROR"
    ELSE IF kind = "network" THEN "NETWORK_ERROR"
    ELSE IF kind = "unauthorized" THEN "UNAUTHORIZED"
    ELSE IF kind = "not found" THEN "NOT_FOUND"
    ELSE IF kind = "validation" THEN "VALIDATION_ERROR"
    ELSE IF kind = "api" THEN "API_ERROR"
    ELSE "UNKNOWN_ERROR"
\* createErrorResponse(error, statusCode)
CreateErrorResponse(msg, kind, statusCode) ==
    [error |-> msg, code |-> GetErrorCode(kind), statusCode |-> statusCode]
NoResponseBody == <<>>
\* The TourListResponse of the upstream operation
ResultBody == [items |-> "items", totalCount |-> "totalCount"]

RouteIdle ==
    /\ rtPc = "idle"
    /\ rtQuery = [numOfRows |-> QueryText("absent", 0), pageNo |-> QueryText("absent", 0),
                  keyword |-> Null]
    /\ rtCalls = <<>>
    /\ rtUpstream = "none"
    /\ rtStatus = 0
    /\ rtBody = NoResponseBody

\* GET(request) up to its await: the parameters are parsed and tested, then
\* the upstream operation is called.
RouteGet(q) ==
    /\ rtPc = "idle"
    /\ rtQuery' = q
    /\ LET numOfRows == ParseIntOr(q.numOfRows, DefaultNumOfRows)
           pageNo == ParseIntOr(q.pageNo, DefaultPageNo)
       IN  IF NumOfRowsRejected(numOfRows)
             THEN /\ rtPc' = "done"
                  /\ rtStatus' = 400
                  /\ rtBody' = CreateErrorResponse("numOfRows", "other", 400)
                  /\ UNCHANGED <<rtCalls, rtUpstream>>
             ELSE IF PageNoRejected(pageNo)
                    THEN /\ rtPc' = "done"
                         /\ rtStatus' = 400
                         /\ rtBody' = CreateErrorResponse("pageNo", "other", 400)
                         /\ UNCHANGED <<rtCalls, rtUpstream>>
                    ELSE /\ rtPc' = "awaiting"
                         /\ rtUpstream' = "pending"
                         /\ rtCalls' = Append(rtCalls,
                                [op |-> IF IsSearchMode(q.keyword)
                                          THEN "searchKeyword" ELSE "getAreaBasedList",
                                 numOfRows |-> numOfRows, pageNo |-> pageNo])
                         /\ UNCHANGED <<rtStatus, rtBody>>
    /\ UNCHANGED <<otherThanRoute, frVars, hookVars, batchVars, apiVars>>

\* The upstream operation returned: NextResponse.json(result).
RouteReturn ==
    /\ rtPc = "awaiting"
    /\ rtPc' = "done"
    /\ rtUpstream' = "ok"
    /\ rtStatus' = 200
    /\ rtBody' = ResultBody
    /\ UNCHANGED <<rtQuery, rtCalls, otherThanRoute, frVars, hookVars, batchVars, apiVars>>

\* The upstream operation raised an error whose message is of kind k: the
\* catch block of GET.
RouteCatch(k) ==
    /\ rtPc = "awaiting"
    /\ rtPc' = "done"
    /\ rtUpstream' = "raised"
    /\ rtStatus' = 500
    /\ rtBody' = CreateErrorResponse("upstream", k, 500)
    /\ UNCHANGED <<rtQuery, rtCalls, otherThanRoute, frVars, hookVars, batchVars, apiVars>>

RouteNext ==
    \/ \E q \in Queries : RouteGet(q)
    \/ RouteReturn
    \/ \E k \in FailureKinds : RouteCatch(k)

(***************************************************************************)
(* buildQueryString applied to a params object                             *)
(***************************************************************************)
ParamNames == {"a", "b", "c", "d"}
ParamValues == {Undef, Null, "", "0", "v"}
\* The objects with some of the names as keys
ParamObjects ==
    {{<<n, f[n]>> : n \in D} : D \in SUBSET ParamNames, f \in [ParamNames -> ParamValues]}

QueryIdle ==
    /\ qsPc = "idle"
    /\ qsParams = {}
    /\ qsOut = {}

QsApply(params) ==
    /\ qsPc = "idle"
    /\ apiPc = "idle"
    /\ qsPc' = "done"
    /\ qsParams' = params
    /\ qsOut' = BuildQueryString(params)
    /\ UNCHANGED <<otherThanQuery, frVars, hookVars, batchVars, apiVars>>

\* Either buildQueryString is applied to an object, or an operation runs
\* and applies it to its own params.
QueryNext ==
    \/ \E params \in ParamObjects : QsApply(params)
    \/ qsPc = "idle" /\ ApiNext

(***************************************************************************)
(* filterPetFriendlyTours                                                  *)
(*                                                                         *)
(* A text of the size field is the sequence of its syllables: "so" for 소, *)
(* "jung" for 중, "dae" for 대, "hyeong" for 형, "jang" for 장.            *)
(***************************************************************************)
MaxTours == 2
TourIds == {"a", "b"}

\* What petInfoMap.get(contentid) gives: undefined when the map has no such
\* key, null, or a PetTourInfo with its chkpetleash and chkpetsize fields
MapEntry(kind, leash, sizeGiven, size) ==
    [kind |-> kind, leash |-> leash, sizeGiven |-> sizeGiven, size |-> size]
MissingEntry == MapEntry("missing", Undef, FALSE, <<>>)
NullEntry == MapEntry("null", Undef, FALSE, <<>>)
LeashValues == {Undef, "Y", "N"}
SizeTexts == {<<>>, <<"so", "hyeong">>, <<"dae", "hyeong">>, <<"jang", "so">>}
MapEntries ==
    {MissingEntry, NullEntry}
    \cup {MapEntry("record", l, FALSE, <<>>) : l \in LeashValues}
    \cup {MapEntry("record", l, TRUE, t) : l \in LeashValues, t \in SizeTexts}
PetSizes == {Undef, "all", "small", "medium", "large"}

\* Mutant: a tour without pet data counts as pet-friendly.
IsPetFriendlyUnlessKnown(petInfo) ==
    petInfo.kind # "record" \/ petInfo.leash = "Y"

\* isPetFriendly(petInfo)
IsPetFriendly(petInfo) ==
    IF petInfo.kind # "record" THEN FALSE ELSE petInfo.leash = "Y"

\* petSizeMap[petSize]
PetSizeMap(petSize) ==
    IF petSize = "small" THEN {<<"so", "hyeong">>, <<"so">>}
    ELSE IF petSize = "medium" THEN {<<"jung", "hyeong">>, <<"jung">>}
    ELSE IF petSize = "large" THEN {<<"dae", "hyeong">>, <<"dae">>}
    ELSE {}

\* text.includes(word)
Includes(text, word) ==
    \E i \in 0..(Len(text) - Len(word)) : SubSeq(text, i + 1, i + Len(word)) = word

\* matchesPetSize(petInfo, petSize)
MatchesPetSize(petInfo, petSize) ==
    IF petInfo.kind # "record" \/ petSize = "all" THEN TRUE
    ELSE IF PetSizeMap(petSize) = {} THEN TRUE
    ELSE LET petSizeValue == IF petInfo.sizeGiven THEN petInfo.size ELSE <<>>
         IN  \E size \in PetSizeMap(petSize) : Includes(petSizeValue, size)

\* The callback of tours.filter
KeepsTour(contentid, map, petSize) ==
    LET petInfo == map[contentid]
    IN  IF ~IsPetFriendly(petInfo) THEN FALSE
        ELSE IF Truthy(petSize) /\ petSize # "all" THEN MatchesPetSize(petInfo, petSize)
        ELSE TRUE

\* tours.filter(callback): the elements the callback keeps, in turn
RECURSIVE FilterFrom(_, _, _, _)
FilterFrom(list, i, map, petSize) ==
    IF i > Len(list) THEN <<>>
    ELSE (IF KeepsTour(list[i], map, petSize) THEN <<list[i]>> ELSE <<>>)
            \o FilterFrom(list, i + 1, map, petSize)

FilterPetFriendlyTours(list, map, petSize) == FilterFrom(list, 1, map, petSize)

PetFilterIdle ==
    /\ pfPc = "idle"
    /\ pfTours = <<>>
    /\ pfMap = [id \in TourIds |-> MissingEntry]
    /\ pfSize = Undef
    /\ pfOut = <<>>

PetFilterInit ==
    /\ pfPc = "idle"
    /\ pfTours \in SeqsUpTo(TourIds, MaxTours)
    /\ pfMap \in [TourIds -> MapEntries]
    /\ pfSize \in PetSizes
    /\ pfOut = <<>>

PetFilterCall ==
    /\ pfPc = "idle"
    /\ pfPc' = "done"
    /\ pfOut' = FilterPetFriendlyTours(pfTours, pfMap, pfSize)
    /\ UNCHANGED <<pfTours, pfMap, pfSize, otherThanPetFilter, frVars, hookVars, batchVars, apiVars>>

UtilIdle == KatecIdle /\ RouteIdle /\ QueryIdle /\ PetFilterIdle

(***************************************************************************)
(* Specifications                                                          *)
(***************************************************************************)
\* fetchWithRetry alone
InitRetry == FrInit /\ HookIdle /\ BatchIdle /\ ApiIdle /\ UtilIdle
SpecRetry == InitRetry /\ [][FrNext]_vars

\* fetchWithRetry with a transport that always answers and timers that fire
FairSpecRetry == SpecRetry /\ WF_vars(FrNext)

\* useInfiniteTours alone
InitHook == HookInit /\ FrInit /\ BatchIdle /\ ApiIdle /\ UtilIdle
SpecHook == InitHook /\ [][HookNext]_vars

\* useInfiniteTours with the props never changing, reset() never called and
\* a server that reports the seed's totalCount with every page
PagingNext ==
    \/ LoadMore
    \/ \E r \in inflight : FetchSuccess(r, totalCount)
    \/ \E r \in inflight, msg \in FailureMsgs : FetchFail(r, msg)
    \/ Render
SpecPaging == InitHook /\ [][PagingNext]_vars

\* batchGetPetTourInfo alone
InitBatch == BatchIdle /\ FrInit /\ HookIdle /\ ApiIdle /\ UtilIdle
SpecBatch == InitBatch /\ [][BatchNext]_vars

\* one API operation: its fetchWithRetry call, then the parsing
InitApi == ApiIdle /\ FrInit /\ HookIdle /\ BatchIdle /\ UtilIdle
SpecApi == InitApi /\ [][ApiNext]_vars

\* GET /api/tours answering one request
InitRoute == RouteIdle /\ KatecIdle /\ QueryIdle /\ PetFilterIdle /\ FrInit /\ HookIdle /\ BatchIdle /\ ApiIdle
SpecRoute == InitRoute /\ [][RouteNext]_vars

\* Every fetch of the hook settles: the route answers every request, and a
\* lost connection rejects the promise.
Settle(id) ==
    \E r \in inflight :
        /\ r.id = id
        /\ \/ \E total \in Totals : FetchSuccess(r, total)
           \/ \E msg \in FailureMsgs : FetchFail(r, msg)
FairSpecHook == SpecHook /\ \A id \in 1..MaxRequests : WF_vars(Settle(id))

\* filterPetFriendlyTours applied to every list, map and size
InitPetFilter ==
    PetFilterInit /\ KatecIdle /\ RouteIdle /\ QueryIdle /\ FrInit /\ HookIdle /\ BatchIdle /\ ApiIdle
SpecPetFilter == InitPetFilter /\ [][PetFilterCall]_vars

\* buildQueryString on its own and inside the operations
SpecQuery == InitApi /\ [][QueryNext]_vars

\* katecToWgs84 applied to every pair of arguments
InitKatec == KatecInit /\ RouteIdle /\ QueryIdle /\ PetFilterIdle /\ FrInit /\ HookIdle /\ BatchIdle /\ ApiIdle
SpecKatec == InitKatec /\ [][KatecCall]_vars

\* batchGetPetTourInfo with lookups that all settle
FairSpecBatch == SpecBatch /\ WF_vars(BatchNext)

(***************************************************************************)
(* fetchWithRetry: properties                                              *)
(***************************************************************************)
FrDone == frPc \in {"returned", "thrown"}
\* Network attempts made so far, the one in flight included.
Attempts == Len(frLog) + (IF frPc = "fetch" THEN 1 ELSE 0)
Is4xx(o) == o.kind = "response" /\ IsClientError(o.status)
Is5xx(o) == o.kind = "response" /\ o.status >= 500 /\ o.status <= 599
IsNetErr(o) == o.kind = "neterr"
IsOk(o) == o.kind = "response" /\ ResponseOk(o.status)
Is500(o) == o.kind = "response" /\ o.status = 500

\* C1: with maxRetries >= 1, a 4xx answer to the first attempt makes the
\* call raise after exactly one network attempt, with no backoff delay and
\* no second attempt.
C1_ClientErrorTerminal ==
    (maxRetries >= 1 /\ Len(frLog) >= 1 /\ Is4xx(frLog[1]))
        => (frPc = "thrown" /\ Len(frLog) = 1 /\ frDelays = <<>>)

C4_Safety ==
    /\ Attempts <= maxRetries
    /\ \A i \in 1..Len(frLog) :
         /\ ((Is5xx(frLog[i]) \/ IsNetErr(frLog[i])) /\ i < maxRetries)
               => (Len(frLog) > i \/ frPc \in {"backoff", "fetch"})
         /\ IsOk(frLog[i])
               => /\ i = Len(frLog)
                  /\ frPc = "returned"
                  /\ frResult = <<"response", frLog[i].status>>
    /\ (frPc = "thrown" /\ maxRetries >= 1 /\ Len(frLog) = maxRetries)
          => frResult = ErrorOf(frLog[maxRetries])
    /\ frPc = "returned" => IsOk(frLog[Len(frLog)])

\* C4: every call terminates; a 5xx answer or a thrown network error on an
\* attempt is followed by another attempt while fewer than maxRetries were
\* made; at most maxRetries attempts are made; the first ok response is
\* returned with no further attempt; when all maxRetries attempts fail, the
\* error raised is that of the last attempt.
C4_RetryTerminates ==
    /\ []C4_Safety
    /\ (frPc = "fetch") ~> FrDone

\* C4 witness: three attempts allowed, all three failed with a 5xx answer or
\* a network error, and the call has raised the last one's error.
C4_Witness ==
    /\ maxRetries = 3
    /\ Len(frLog) = 3
    /\ Is5xx(frLog[1]) /\ IsNetErr(frLog[2]) /\ Is5xx(frLog[3])
    /\ frPc = "thrown"
    /\ frResult = ServerError(frLog[3].status)

FirstThreeAre500 ==
    /\ Len(frLog) >= 3
    /\ \A i \in 1..3 : Is500(frLog[i])

C6_DelaysOneTwoFour ==
    /\ \A i \in 1..Len(frDelays) : frDelays[i] = Pow2(i - 1) * 1000
    /\ (maxRetries = DefaultMaxRetries /\ frPc = "thrown"
          /\ Len(frLog) = DefaultMaxRetries
          /\ \A i \in 1..Len(frLog) : Is5xx(frLog[i]) \/ IsNetErr(frLog[i]))
          => frDelays = <<1000, 2000, 4000>>

(***************************************************************************)
(* useInfiniteTours: properties                                            *)
(***************************************************************************)
AnyFetchSuccess == \E r \in inflight, total \in Totals : FetchSuccess(r, total)
AnyFetchFail == \E r \in inflight, msg \in FailureMsgs : FetchFail(r, msg)

\* C2: under any interleaving of loadMore() calls, reset() calls (the
\* automatic one on a prop change included) and fetch completions, at most
\* one loadMore request is in flight.
C2_AtMostOneInFlight == InFlightCount <= 1

\* C7: loadMore() is a no-op (no request, no change to items, page cursor,
\* error or hasMore) whenever a fetch is in flight or hasMore is false.
C7_LoadMoreNoop ==
    [][(LoadMore /\ (inflight # {} \/ ~hasMore))
          => UNCHANGED <<inflight, issued, tours, currentPage, error, hasMore,
                         nTours, nPage, nError, nHasMore>>]_vars

\* C8: every successful fetch appends the returned items after the
\* accumulated ones, increases the page cursor by exactly 1 and recomputes
\* hasMore as accumulated.length < totalCount.
C8_SuccessAdvancesByOne ==
    [][\A r \in inflight, total \in Totals :
          FetchSuccess(r, total)
             => /\ nTours' = nTours \o Page(r.key, r.page)
                /\ nPage' = nPage + 1
                /\ nHasMore' = (Len(nTours') < total)]_vars

\* C9: a hook seeded with initial.length >= totalCount has hasMore = false
\* and never issues a request; a hook seeded with the first page of
\* totalCount items, the server returning the remaining items page by page,
\* is exhausted with accumulated.length = totalCount, and no request is
\* pending or made once it is.
C9_Exhaustion ==
    /\ Len(initialTours) >= totalCount => (~hasMore /\ issued = 0)
    /\ (initialTours = Page(filterKey, 1) /\ totalCount = DatasetSize)
          => /\ ~nHasMore => Len(nTours) = totalCount
             /\ ~hasMore => (Len(tours) = totalCount /\ inflight = {})

\* C10: a failed fetch stores its message in error, leaves the accumulated
\* items, the page cursor and hasMore as they are, clears the loading flag
\* and the in-flight guard, so that the guard of a later loadMore() call
\* passes again unless the list is exhausted.
C10_FailureKeepsItems ==
    [][AnyFetchFail
          => /\ nError' \in FailureMsgs
             /\ nTours' = nTours /\ nPage' = nPage /\ nHasMore' = nHasMore
             /\ tours' = tours /\ currentPage' = currentPage /\ hasMore' = hasMore
             /\ nLoading' = FALSE
             /\ isLoadingRef' = FALSE
             /\ LoadMoreBlocked(isLoadingRef', hasMore') = ~hasMore']_vars

\* C10 witness: the request for page 2 failed, the items are the initial
\* ones, and a later loadMore() has requested page 2 again.
C10_Witness ==
    /\ reqLog = <<2, 2>>
    /\ InFlightCount = 1
    /\ \A r \in inflight : r.id = 2 /\ r.page = 2
    /\ last = "loadMore"
    /\ nTours = initialTours /\ nPage = 1
    /\ epoch = 0

\* The state useState builds from the props init and total.
FreshState(init, total) == <<init, 1, FALSE, NoMsg, InitialHasMore(init, total)>>
AnyPropsChange ==
    \E k \in Keys : \E init \in InitialLists(k), total \in Totals : PropsChange(k, init, total)

\* C11: after reset() (the automatic one on a prop change included), from
\* any state, the items are the initial list, the page cursor is 1, error
\* is null, isLoading is false, hasMore is initial.length < totalCount and
\* the in-flight guard is clear: the state a fresh hook has.
C11_ResetRestoresFresh ==
    last \in {"reset", "propsChange"}
        => /\ <<nTours, nPage, nLoading, nError, nHasMore>>
                 = FreshState(initialTours, totalCount)
           /\ isLoadingRef = FALSE
           /\ batch = "clean"
                 => <<tours, currentPage, isLoading, error, hasMore>>
                       = FreshState(initialTours, totalCount)

\* C12: between two resets no page is requested again once it was appended
\* (the cursor nPage being the last page appended), and a loadMore() call
\* starts a request only when no earlier request is still unresolved.
C12_PagesInOrder ==
    [][issued' = issued + 1
          => /\ inflight = {}
             /\ NextPage(currentPage) > nPage]_vars

\* C13: reset() (the automatic one included) leaves the requests in flight
\* as they are, and when the response of a request that was in flight at
\* the reset arrives next, its items are appended to the reset list: the
\* accumulated list is the initial list followed by that page's items.
C13_StaleAppendsAfterReset ==
    [][/\ (Reset \/ AnyPropsChange) => inflight' = inflight
       /\ \A r \in inflight, total \in Totals :
             (last \in {"reset", "propsChange"} /\ FetchSuccess(r, total))
                => nTours' = initialTours \o Page(r.key, r.page)]_vars

\* C13 witness: page 2 was requested, reset() ran while the request was in
\* flight, then the response arrived: initial list, then page 2.
C13_Witness ==
    /\ epoch = 0
    /\ issued = 1 /\ reqLog = <<>>
    /\ last = "fetchOk"
    /\ initialTours = Page(filterKey, 1)
    /\ nTours = initialTours \o Page(filterKey, 2)
    /\ inflight = {}

\* C14: for a fixed filter key (the props never change), the server
\* returning disjoint pages in a stable order, the accumulated list never
\* holds two items with the same id.
C14_NoDuplicateIds ==
    epoch = 0
        => \A i, j \in 1..Len(nTours) : i # j => nTours[i] # nTours[j]

\* C15: hasMore is false exactly when accumulated.length >= totalCount,
\* totalCount being the seed's total before any successful fetch (since
\* the last reset) and the total of the most recent successful response
\* afterwards.
C15_HasMoreIffBelowTotal ==
    /\ nHasMore = (Len(nTours) < refTotal)
    /\ batch = "clean" => hasMore = (Len(tours) < refTotal)

(***************************************************************************)
(* batchGetPetTourInfo: properties                                         *)
(***************************************************************************)
\* Positions whose lookup was started so far.
Started == bPending \cup DOMAIN bOut
IdSet == {bIds[p] : p \in 1..Len(bIds)}
LastPosition(id) == CHOOSE p \in 1..Len(bIds) :
                        bIds[p] = id /\ \A q \in (p + 1)..Len(bIds) : bIds[q] # id

\* C16: the ids are processed in consecutive chunks of at most batchSize,
\* one chunk after the other: the lookups in flight all belong to the chunk
\* tourIds[i+1 .. min(i+batchSize, len)], every lookup of the chunks before
\* it has settled, no lookup of a later chunk has started, and at most
\* batchSize lookups are in flight.
C16_ChunksSequential ==
    bPc = "running"
        => /\ Cardinality(bPending) <= bSize
           /\ bI % bSize = 0
           /\ bPending \subseteq (bI + 1)..Min(bI + bSize, Len(bIds))
           /\ bPending # {}
           /\ Started = 1..Min(bI + bSize, Len(bIds))

\* C16 witness: three ids with batchSize 2; the first chunk of two has
\* settled and the second chunk, the third id alone, is in flight.
C16_Witness ==
    /\ bPc = "running"
    /\ Len(bIds) = 3 /\ bSize = 2
    /\ bI = 2
    /\ bPending = {3}
    /\ DOMAIN bOut = {1, 2}

BatchDoneOk ==
    bPc = "done"
        => /\ bPending = {}
           /\ DOMAIN bOut = 1..Len(bIds)
           /\ DOMAIN bResult = IdSet
           /\ \A id \in IdSet :
                bResult[id] = (IF bOut[LastPosition(id)] = "info"
                                 THEN PetInfo(id) ELSE NullInfo)

\* C17: a call never raises and resolves: for any list of ids and any mix
\* of lookups succeeding and failing it ends with a map holding exactly one
\* entry per distinct id, the pet info when the id's (last) lookup returned
\* it and null when that lookup failed or found nothing; a failure in one
\* chunk does not keep the later chunks from being looked up.
C17_BatchNeverThrows ==
    /\ []BatchDoneOk
    /\ (bPc = "running") ~> (bPc = "done")

\* C17 witness: three ids with batchSize 2, a lookup of the first chunk
\* rejected, and the call has returned a map with the third id's pet info.
C17_Witness ==
    /\ bPc = "done"
    /\ bIds = <<"a", "b", "c">> /\ bSize = 2
    /\ bOut = <<"info", "throw", "info">>
    /\ bResult = [x \in {"a", "b", "c"} |-> IF x = "b" THEN NullInfo ELSE PetInfo(x)]

(***************************************************************************)
(* The API operations: properties                                          *)
(***************************************************************************)
\* The operation has ended after parsing a response body.
ApiParsedDone == apiPc = "done" /\ frPc = "returned"
EnvelopeError == apiParsed[1] \in {"format", "upstream"}

\* C18: for the list-returning operations a success envelope (response and
\* header present, code "0000", body present) is normalised to an array: a
\* bare item object gives length 1, an array of N gives length N, an absent
\* item field or an absent items container gives the empty array, and no
\* error.
C18_NormalisedToArray ==
    (/\ ApiParsedDone
     /\ apiOp \in ListOps
     /\ apiBody.response /\ apiBody.header /\ apiBody.code = "0000" /\ apiBody.body)
        => /\ apiResult.kind = "list"
           /\ Len(apiResult.items) =
                 (IF apiBody.items = "object" /\ apiBody.item = "object" THEN 1
                  ELSE IF apiBody.items = "object" /\ apiBody.item = "array" THEN apiBody.n
                  ELSE 0)

\* C19: parseApiResponse raises the malformed-envelope error when the outer
\* response object is absent, raises the upstream error carrying the result
\* code and message whenever the header's code is not "0000", and returns
\* the envelope only when the response object is present and the code is
\* "0000".
C19_ParseOutcome ==
    ApiParsedDone
        => /\ ~apiBody.response => apiParsed = FormatError
           /\ (apiBody.response /\ apiBody.header /\ apiBody.code # "0000")
                 => apiParsed = <<"upstream", apiBody.code, apiBody.msg>>
           /\ apiParsed = NoApiError
                 => (apiBody.response /\ apiBody.header /\ apiBody.code = "0000")

\* C19 witness: an operation got a body with code "03" and raised the
\* upstream error with that code and message.
C19_Witness ==
    /\ ApiParsedDone
    /\ apiBody.response /\ apiBody.code = "03" /\ apiBody.msg = "SERVICE ERROR"
    /\ apiParsed = UpstreamError("03", "SERVICE ERROR")
    /\ apiResult = ApiRaise(apiParsed)

\* C20, as claimed: an operation that receives an upstream API error or a
\* malformed envelope fails, and has made exactly one network request.
C20_OneRequestThenFail ==
    (ApiParsedDone /\ EnvelopeError)
        => /\ apiResult.kind = "raised"
           /\ Len(frLog) = 1

\* C20, amended: an upstream API error or a malformed envelope is never
\* retried: no network request follows an HTTP 200 answer, whatever its
\* body, so the operation has made exactly one request when that answer
\* came to its first attempt, and one request per earlier failed attempt
\* more otherwise; the operation ends raising the wrapped error, except
\* getDetailPetTour, which returns null when the upstream message holds
\* the text its catch block looks for.
C20_NoRetryAfterEnvelopeError ==
    /\ [](\A i \in 1..Len(frLog) :
             (frLog[i].kind = "response" /\ frLog[i].status = 200)
                => (i = Len(frLog) /\ frPc = "returned"))
    /\ []((ApiParsedDone /\ EnvelopeError)
             => /\ frLog[Len(frLog)].status = 200
                /\ \A i \in 1..(Len(frLog) - 1) : Is4xx(frLog[i]) \/ Is5xx(frLog[i])
                                                      \/ IsNetErr(frLog[i])
                                                      \/ frLog[i].status = 304
                /\ apiResult = (IF apiOp = PetOp /\ apiParsed[1] = "upstream"
                                      /\ apiParsed[3] = LookupFailedText
                                  THEN ApiReturn("null", <<>>)
                                  ELSE ApiRaise(apiParsed)))
    /\ [][apiPc = "done" => (apiPc' = "done" /\ frLog' = frLog)]_vars

\* C20 witness: the first attempt was answered 500, the second 200 with a
\* body lacking the response object; keyword search has raised the
\* malformed-envelope error after two requests.
C20_Witness ==
    /\ ApiParsedDone
    /\ apiOp = "searchKeyword"
    /\ Len(frLog) = 2
    /\ Is500(frLog[1])
    /\ frLog[2].status = 200
    /\ apiParsed = FormatError
    /\ apiResult = ApiRaise(FormatError)

\* The required input of the operation is absent or empty, or the keyword
\* of a keyword search is blank.
RequiredInputMissing ==
    \/ apiOp = "searchKeyword" /\ apiArgs.keyword \in {Undef, Null, "", " "}
    \/ apiOp \in {"getDetailCommon", "getDetailImage", "getDetailPetTour"}
          /\ apiArgs.contentId \in {Undef, Null, ""}
    \/ apiOp = "getDetailIntro"
          /\ (apiArgs.contentId \in {Undef, Null, ""}
                \/ apiArgs.contentTypeId \in {Undef, Null, ""})
NoCredential == apiKeys.tour \in {Undef, ""} /\ apiKeys.pub \in {Undef, ""}
NoRequestMade == frPc = "idle" /\ frLog = <<>>

\* C21: an operation called without its required input (keyword; id; id
\* and category id), or keyword search called with a blank keyword, raises
\* the missing-parameter error and issues no network request.
C21_MissingInputFailsFast ==
    (apiPc # "idle" /\ RequiredInputMissing)
        => /\ apiPc = "done"
           /\ apiResult = ApiRaise(MissingParamError)
           /\ NoRequestMade

\* C21 witness: keyword search was called with a blank keyword and a
\* configured key, and has raised the missing-parameter error.
C21_Witness ==
    /\ apiPc = "done"
    /\ apiOp = "searchKeyword"
    /\ apiArgs.keyword = " "
    /\ apiKeys.tour = "key-a"
    /\ apiResult = ApiRaise(MissingParamError)
    /\ NoRequestMade

\* C22: with no credential configured, an operation called with valid
\* inputs raises the configuration error at the call and issues no network
\* request.
C22_NoCredentialFailsFast ==
    (apiPc # "idle" /\ ~RequiredInputMissing /\ NoCredential)
        => /\ apiPc = "done"
           /\ apiResult = ApiRaise(ConfigError)
           /\ NoRequestMade

\* C22 witness: area-based listing was called with filters and no key, and
\* has raised the configuration error.
C22_Witness ==
    /\ apiPc = "done"
    /\ apiOp = "getAreaBasedList"
    /\ apiArgs.areaCode = "1"
    /\ apiKeys = NoKeys
    /\ apiResult = ApiRaise(ConfigError)
    /\ NoRequestMade

\* C23: getDetailPetTour resolves to null when the upstream returns a
\* success envelope with no item and when the upstream failure is "not
\* found"-shaped (an HTTP 404 from the endpoint); a 5xx answer after the
\* retries, a network error and a malformed envelope are raised.
C23_PetNullOnNotFound ==
    (apiPc = "done" /\ apiOp = PetOp /\ frLog # <<>>)
        => /\ (frPc = "returned" /\ apiParsed = NoApiError /\ apiBody.body
                  /\ (apiBody.items = "empty"
                        \/ (apiBody.items = "object" /\ apiBody.item = "absent")))
                 => apiResult.kind = "null"
           /\ (frPc = "thrown" /\ frLog[Len(frLog)].status = 404)
                 => apiResult.kind = "null"
           /\ (frPc = "thrown" /\ (Is5xx(frLog[Len(frLog)]) \/ IsNetErr(frLog[Len(frLog)])))
                 => apiResult.kind = "raised"
           /\ (frPc = "returned" /\ apiParsed = FormatError)
                 => apiResult.kind = "raised"

(***************************************************************************)
(* katecToWgs84: properties                                                *)
(***************************************************************************)
IsNumeral(t) == t.kind = "number"
InsideBox(c) ==
    /\ c[1] >= 124 * Scale /\ c[1] <= 132 * Scale
    /\ c[2] >= 33 * Scale /\ c[2] <= 43 * Scale

\* C24: the function returns the fallback (lng 126.9780, lat 37.5665)
\* whenever an argument is missing or empty, is not a number, is zero, or
\* the scaled pair lies outside longitude 124..132, latitude 33..43; for
\* every other pair it returns exactly (mapx / Scale, mapy / Scale).
C24_FallbackOrScaled ==
    kPc = "done"
        => IF \/ kMapx.kind \in {"undefined", "empty"} \/ kMapy.kind \in {"undefined", "empty"}
              \/ ~IsNumeral(kMapx) \/ ~IsNumeral(kMapy)
              \/ kMapx.val = 0 \/ kMapy.val = 0
              \/ ~InsideBox(<<kMapx.val, kMapy.val>>)
             THEN kResult = <<1269780000, 375665000>>
             ELSE kResult = <<kMapx.val, kMapy.val>>

\* C29: for every pair of arguments the coordinate returned lies inside
\* longitude 124..132, latitude 33..43; it is never outside Korea and never
\* (0, 0).
C29_AlwaysInsideBox ==
    kPc = "done" => (InsideBox(kResult) /\ kResult # <<0, 0>>)

\* C29 witness: numerals just outside the box on both axes were passed and
\* the fallback was returned, with a warning.
C29_Witness ==
    /\ kPc = "done"
    /\ kMapx = CoordText("number", 1320000001)
    /\ kMapy = CoordText("number", 329999999)
    /\ kResult = DefaultCoords
    /\ kWarned

(***************************************************************************)
(* GET /api/tours: properties                                              *)
(***************************************************************************)
\* The parameter is given in the query
Given(t) == t.kind \notin {"absent", "empty"}
\* The parameter is an integer numeral
IsIntegerText(t) == t.kind = "number"

\* C25: a request whose numOfRows is given and is not an integer in 1..100,
\* or whose pageNo is given and is not an integer >= 1 (non-numeric text
\* included), is answered 400 with no upstream call; only requests with
\* both values in range reach the upstream client.
C25_BadPagingRejected ==
    (/\ rtPc # "idle"
     /\ \/ /\ Given(rtQuery.numOfRows)
           /\ ~(IsIntegerText(rtQuery.numOfRows) /\ rtQuery.numOfRows.val \in 1..100)
        \/ /\ Given(rtQuery.pageNo)
           /\ ~(IsIntegerText(rtQuery.pageNo) /\ rtQuery.pageNo.val >= 1))
        => (rtPc = "done" /\ rtStatus = 400 /\ rtCalls = <<>>)

\* C28: a request that passes the validation calls exactly one upstream
\* operation, keyword search when its keyword is non-blank after trimming
\* and area-based listing otherwise; when that operation fails, the answer
\* has status 500 and a body holding error, code and statusCode.
C28_RoutingAndFailure ==
    /\ Len(rtCalls) <= 1
    /\ rtPc \in {"awaiting", "done"} /\ rtStatus # 400 => Len(rtCalls) = 1
    /\ rtCalls # <<>>
          => rtCalls[1].op = (IF rtQuery.keyword \in {" jeju "}
                                THEN "searchKeyword" ELSE "getAreaBasedList")
    /\ rtUpstream = "raised"
          => /\ rtPc = "done"
             /\ rtStatus = 500
             /\ {"error", "code", "statusCode"} \subseteq DOMAIN rtBody
             /\ rtBody.statusCode = 500

\* C28 witness: a request with a blank keyword was routed to area-based
\* listing, which failed with a timeout message, and was answered 500.
C28_Witness ==
    /\ rtPc = "done"
    /\ rtQuery.keyword = " "
    /\ rtCalls = <<[op |-> "getAreaBasedList", numOfRows |-> Num(20), pageNo |-> Num(1)]>>
    /\ rtUpstream = "raised"
    /\ rtStatus = 500
    /\ rtBody = [error |-> "upstream", code |-> "TIMEOUT_ERROR", statusCode |-> 500]

(***************************************************************************)
(* buildQueryString: properties                                            *)
(***************************************************************************)
\* A URL was built by an operation
UrlBuilt == apiPc = "fetching" \/ frLog # <<>>

\* C27: buildQueryString emits exactly the parameters whose value is not
\* undefined, null or the empty string, and every URL an operation builds
\* holds serviceKey, MobileOS, MobileApp and _type=json, whatever optional
\* filters were given.
C27_EmitsNonEmptyAndIdentifies ==
    /\ qsPc = "done"
          => \A n \in ParamNames, v \in ParamValues :
                <<n, v>> \in qsOut
                   <=> (<<n, v>> \in qsParams /\ v \notin {"undefined", "null", ""})
    /\ UrlBuilt
          => /\ \E k \in {"key-a", "key-b"} : <<"serviceKey", k>> \in apiUrl
             /\ {<<"MobileOS", "ETC">>, <<"MobileApp", "MyTrip">>, <<"_type", "json">>}
                   \subseteq apiUrl

\* C27 witness: an object holding undefined, null, the empty string and
\* "0" gave a query string with the last one only.
C27_Witness ==
    /\ qsPc = "done"
    /\ qsParams = {<<"a", "undefined">>, <<"b", "null">>, <<"c", "">>, <<"d", "0">>}
    /\ qsOut = {<<"d", "0">>}

(***************************************************************************)
(* useInfiniteTours: the promise of loadMore                               *)
(***************************************************************************)
\* The loadMore() call numbered id has started its fetch and not settled
Fetching(id) == \E r \in inflight : r.id = id
\* The promise of the loadMore() call numbered id was fulfilled
Fulfilled(id) == <<id, "fulfilled">> \in settled

\* C26: a loadMore() call that starts a fetch eventually settles, and its
\* promise is never rejected; the step that settles it, successful or not,
\* leaves isLoading false and the in-flight guard cleared, and a failure
\* changes nothing but the error string.
C26_LoadMoreNeverRejects ==
    /\ \A id \in 1..MaxRequests : Fetching(id) ~> Fulfilled(id)
    /\ [](\A o \in settled : o[2] = "fulfilled")
    /\ [][(settled' # settled)
             => /\ nLoading' = FALSE
                /\ isLoadingRef' = FALSE
                /\ inflight' # inflight
                /\ (last' = "fetchFail")
                      => /\ nError' \in FailureMsgs
                         /\ <<nTours', nPage', nHasMore'>> = <<nTours, nPage, nHasMore>>]_vars

\* C26 witness: the first loadMore() call failed and the second succeeded;
\* both promises are fulfilled, nothing is in flight and the guard is clear.
C26_Witness ==
    /\ settled = {<<1, "fulfilled">>, <<2, "fulfilled">>}
    /\ inflight = {}
    /\ last = "fetchOk"
    /\ reqLog = <<2, 2>>
    /\ nLoading = FALSE /\ isLoadingRef = FALSE
    /\ nError = NoMsg

(***************************************************************************)
(* filterPetFriendlyTours: properties                                      *)
(***************************************************************************)
\* The syllable a size text must hold for the size asked
SizeSyllable(petSize) ==
    IF petSize = "small" THEN "so" ELSE IF petSize = "medium" THEN "jung" ELSE "dae"

\* The tour is to be kept: its entry is a record whose leash flag is "Y"
\* and, for a size other than "all", whose size text holds the syllable
ToBeKept(contentid) ==
    /\ pfMap[contentid].kind = "record"
    /\ pfMap[contentid].leash = "Y"
    /\ pfSize \in {"small", "medium", "large"}
          => /\ pfMap[contentid].sizeGiven
             /\ \E i \in 1..Len(pfMap[contentid].size) :
                   pfMap[contentid].size[i] = SizeSyllable(pfSize)

\* C30: the result is the input with exactly the tours removed whose map
\* entry is missing, null, or a record whose leash flag is not "Y" or
\* (for a size other than "all") whose size text does not match; the
\* tours kept stay in their order.
C30_FilterKeepsLeashY ==
    pfPc = "done" => pfOut = SelectSeq(pfTours, ToBeKept)

\* C30 witness: of two tours the first has a null entry and the second a
\* record with leash "Y" and a small size; filtering for small keeps the
\* second only.
C30_Witness ==
    /\ pfPc = "done"
    /\ pfTours = <<"a", "b">>
    /\ pfMap["a"].kind = "null"
    /\ pfMap["b"] = MapEntry("record", "Y", TRUE, <<"so", "hyeong">>)
    /\ pfSize = "small"
    /\ pfOut = <<"b">>

====
